---- MODULE Spec2Model ----
(***************************************************************************)
(* Model of src/mimic_extractor.py: class MimicExtractor.                  *)
(*                                                                         *)
(* Text is modelled as it is built.  A platform tag is a sequence of       *)
(* characters, so that str.lower() is a real conversion.  A SQL text is a  *)
(* sequence of words (whitespace-separated pieces of the f-string); a word *)
(* is a sequence of fragments: the literal pieces of the f-string and the  *)
(* interpolated values, glued in the order the f-string glues them.        *)
(***************************************************************************)
EXTENDS Integers, Sequences, FiniteSets, TLC

VARIABLES
    gateway,   \* the MimicExtractor instance the caller holds (exists = FALSE: none)
    ctor,      \* what the last run of __init__ did
    backend,   \* how the database / BigQuery service behaves now
    last,      \* the last call of a method of the gateway
    again      \* the same call, made a second time with the same arguments

vars == <<gateway, ctor, backend, last, again>>

\* ---------------------------------------------------------------- bounds
MaxIds == 2       \* longest identifier list passed to a builder

\* ---------------------------------------------------------------- text
UpperAlpha == <<"A","B","C","D","E","F","G","H","I","J","K","L","M",
                "N","O","P","Q","R","S","T","U","V","W","X","Y","Z">>
LowerAlpha == <<"a","b","c","d","e","f","g","h","i","j","k","l","m",
                "n","o","p","q","r","s","t","u","v","w","x","y","z">>

\* str.lower() on one character
LowerChar(c) ==
    IF \E i \in DOMAIN UpperAlpha : UpperAlpha[i] = c
    THEN LowerAlpha[CHOOSE i \in DOMAIN UpperAlpha : UpperAlpha[i] = c]
    ELSE c

\* str.lower()
Lower(s) == [i \in DOMAIN s |-> LowerChar(s[i])]

LOCAL_TAG == <<"l","o","c","a","l">>
AWS_TAG == <<"a","w","s">>
GCP_TAG == <<"g","c","p">>

DigitChars == <<"0","1","2","3","4","5","6","7","8","9">>

\* str(n) for a non-negative int: its decimal digits, most significant first
RECURSIVE Str(_)
Str(n) == IF n < 10 THEN <<DigitChars[n + 1]>>
          ELSE Str(n \div 10) \o <<DigitChars[(n % 10) + 1]>>

\* ','.join(map(str, ids))
RECURSIVE JoinIds(_)
JoinIds(ids) ==
    IF ids = <<>> THEN <<>>
    ELSE IF Len(ids) = 1 THEN Str(ids[1])
    ELSE Str(ids[1]) \o <<",">> \o JoinIds(Tail(ids))

\* an interpolated string value: the empty string contributes nothing
Frag(s) == IF s = "" THEN <<>> ELSE <<s>>

\* literal words of an f-string
Words(ws) == [i \in DOMAIN ws |-> <<ws[i]>>]

\* ---------------------------------------------------------------- values
Unset == "unset"        \* attribute never assigned
NoSql == <<>>

\* what a call hands back: nothing (it raised), None, or a DataFrame holding
\* the rows the backend has for the SQL text it was given
NoRet == [kind |-> "none", rows_of |-> NoSql]
NoneRet == [kind |-> "None", rows_of |-> NoSql]
DataFrame(query) == [kind |-> "DataFrame", rows_of |-> query]

NoGateway ==
    [exists |-> FALSE, platform |-> <<>>, gcp_credential_file |-> "",
     gcp_project_id |-> "", gcp_dataset |-> "", engine |-> Unset,
     gcp_client |-> Unset]

NoCall ==
    [op |-> "none", ids |-> <<>>, ids_after |-> <<>>, term |-> "", log |-> FALSE,
     query |-> NoSql, delegated |-> FALSE, events |-> <<>>, outcome |-> "none",
     error |-> "", ret |-> NoRet, backend |-> "none",
     self_before |-> NoGateway, self |-> NoGateway]

NoCtor ==
    [ran |-> FALSE, platform |-> <<>>, gcp_credential_file |-> "",
     gcp_project_id |-> "", gcp_dataset |-> "", events |-> <<>>,
     outcome |-> "none", error |-> "", attrs |-> NoGateway, self |-> NoGateway,
     backend |-> "none"]

\* ---------------------------------------------------------------- inputs
PlatformTags ==
    { LOCAL_TAG, <<"L","O","C","A","L">>,
      AWS_TAG, <<"A","W","S">>,
      GCP_TAG, <<"G","c","p">>,
      <<"a","z","u","r","e">>, <<>> }

CredentialFiles == {"", "key.json"}
ProjectIds == {"", "my-project"}
Datasets == {"", "mimiciii_clinical"}
\* the constructor calls tried, <<platform, gcp_credential_file, gcp_project_id,
\* gcp_dataset, urlOk, credOk>>: every combination of the three gcp_* parameters
\* with a tag of the gcp family, the defaults ("") with every other tag; urlOk
\* (the driver accepts the URL) varies where get_engine runs, credOk (the
\* credential file is readable) where the credentials are loaded
CtorArgs ==
    { <<p, c, j, d, TRUE, k>> : p \in {GCP_TAG, <<"G","c","p">>}, c \in CredentialFiles,
                                j \in ProjectIds, d \in Datasets, k \in BOOLEAN }
    \cup { <<p, "", "", "", u, TRUE>> : p \in {LOCAL_TAG, <<"L","O","C","A","L">>},
                                        u \in BOOLEAN }
    \cup { <<p, "", "", "", TRUE, TRUE>> : p \in PlatformTags }
IdValues == {7, 123}
IdLists == UNION { [1..n -> IdValues] : n \in 0..MaxIds }
Terms == {"", "sepsis"}
RawQueries == { Words(<<"SELECT", "1">>), Words(<<"SELEC", "oops">>) }
BackendModes == {"ok", "connect_fail", "exec_fail"}

\* ---------------------------------------------------------------- effects
\* One observable step of a method: a line printed, a library object created,
\* a connection opened, a SQL text handed to a backend.
Event(kind, to, text) == [kind |-> kind, to |-> to, text |-> text]

\* ---------------------------------------------------------------- construction
\* get_engine as it would be if creating the engine also opened a connection
get_engine_connects(urlOk) ==
    IF urlOk
    THEN [outcome |-> "ok", error |-> "", engine |-> "Engine",
          events |-> <<Event("create_engine", "local", NoSql),
                       Event("connect", "local", NoSql)>>]
    ELSE [outcome |-> "raise", error |-> "driver", engine |-> Unset,
          events |-> <<Event("create_engine", "local", NoSql)>>]

\* get_engine: sqlalchemy.create_engine builds the URL and the engine object.
\* It opens no connection (the engine connects on first use).  The driver may
\* reject the URL it is given (urlOk = FALSE), and then create_engine raises.
get_engine(urlOk) ==
    IF urlOk
    THEN [outcome |-> "ok", error |-> "", engine |-> "Engine",
          events |-> <<Event("create_engine", "local", NoSql)>>]
    ELSE [outcome |-> "raise", error |-> "driver", engine |-> Unset,
          events |-> <<Event("create_engine", "local", NoSql)>>]

\* The test of line 42: not (gcp_credential_file or gcp_project_id or gcp_dataset)
GcpParamsRejected(cred, proj, dataset) ==
    ~ (cred # "" \/ proj # "" \/ dataset # "")

\* service_account.Credentials.from_service_account_file(path): reads the file;
\* an empty path, or a file that is missing or malformed, raises.
LoadCredentialsOk(cred, credOk) == cred # "" /\ credOk

\* The attributes assigned by lines 24-32
StoredFields(platform, cred, proj, dataset) ==
    [exists |-> FALSE, platform |-> platform, gcp_credential_file |-> cred,
     gcp_project_id |-> proj, gcp_dataset |-> dataset, engine |-> Unset,
     gcp_client |-> Unset]

Returned(attrs) == [attrs EXCEPT !.exists = TRUE]

CtorResult(attrs, events, outcome, error) ==
    [ran |-> TRUE, platform |-> attrs.platform,
     gcp_credential_file |-> attrs.gcp_credential_file,
     gcp_project_id |-> attrs.gcp_project_id, gcp_dataset |-> attrs.gcp_dataset,
     events |-> events, outcome |-> outcome, error |-> error,
     attrs |-> attrs,
     self |-> IF outcome = "ok" THEN Returned(attrs) ELSE NoGateway,
     backend |-> "none"]

\* lines 34-35: the local branch
InitLocal(attrs, urlOk) ==
    LET e == get_engine(urlOk)
    IN  CtorResult([attrs EXCEPT !.engine = e.engine], e.events, e.outcome, e.error)

\* lines 36-38: the aws branch
InitAws(attrs) ==
    CtorResult([attrs EXCEPT !.engine = "None"],
               <<Event("print", "stdout", Words(<<"Connecting", "on", "AWS">>))>>,
               "ok", "")

\* lines 39-47: the gcp branch
InitGcp(attrs, credOk) ==
    LET hello == <<Event("print", "stdout", Words(<<"Connecting", "on", "GCP">>))>>
        load == <<Event("load_credentials", "gcp", NoSql)>>
        client == <<Event("create_client", "gcp", NoSql)>>
    IN  IF GcpParamsRejected(attrs.gcp_credential_file, attrs.gcp_project_id,
                             attrs.gcp_dataset) THEN
            CtorResult(attrs, hello, "raise", "Exception:gcp-parameters")
        ELSE IF ~ LoadCredentialsOk(attrs.gcp_credential_file, credOk) THEN
            CtorResult(attrs, hello \o load, "raise", "driver")
        ELSE
            CtorResult([attrs EXCEPT !.gcp_client = "Client"],
                       hello \o load \o client, "ok", "")

\* the last branch without its raise: the constructor falls through
InitOther_falls_through(attrs) ==
    CtorResult([attrs EXCEPT !.engine = "None"], <<>>, "ok", "")

\* lines 48-49: any other tag
InitOther(attrs) ==
    CtorResult(attrs, <<>>, "raise", "Exception:platform")

\* MimicExtractor.__init__
MimicExtractor_init(platform, cred, proj, dataset, urlOk, credOk) ==
    LET attrs == StoredFields(platform, cred, proj, dataset)
        tag == Lower(platform)
    IN  IF tag = LOCAL_TAG THEN InitLocal(attrs, urlOk)
        ELSE IF tag = AWS_TAG THEN InitAws(attrs)
        ELSE IF tag = GCP_TAG THEN InitGcp(attrs, credOk)
        ELSE InitOther(attrs)

\* ---------------------------------------------------------------- runQuery
\* the log line without the interpolated query
LogLine_without_query(query, log) ==
    IF log
    THEN <<Event("print", "stdout", Words(<<"Running", "query:">>))>>
    ELSE <<>>

\* lines 71-72: print(f"Running query:\n {query}") when log is set
LogLine(query, log) ==
    IF log
    THEN <<Event("print", "stdout", Words(<<"Running", "query:">>) \o query)>>
    ELSE <<>>

\* lines 75-76: open a connection from the engine, then read_sql the text.
\* be is how the backend behaves during the call: "ok", "connect_fail"
\* (unreachable) or "exec_fail" (rejects the SQL).
LocalRun(query, be) ==
    IF be = "connect_fail" THEN
        [events |-> <<Event("connect", "local", NoSql)>>,
         outcome |-> "raise", error |-> "driver", ret |-> NoRet]
    ELSE IF be = "exec_fail" THEN
        [events |-> <<Event("connect", "local", NoSql),
                      Event("execute", "local", query)>>,
         outcome |-> "raise", error |-> "driver", ret |-> NoRet]
    ELSE
        [events |-> <<Event("connect", "local", NoSql),
                      Event("execute", "local", query)>>,
         outcome |-> "ok", error |-> "", ret |-> DataFrame(query)]

\* the warehouse call wrapped in a retry that gives up with None
GcpRun_retries(query, be) ==
    IF be = "ok" THEN
        [events |-> <<Event("execute", "gcp", query)>>,
         outcome |-> "ok", error |-> "", ret |-> DataFrame(query)]
    ELSE
        [events |-> <<Event("execute", "gcp", query), Event("execute", "gcp", query)>>,
         outcome |-> "ok", error |-> "", ret |-> NoneRet]

\* line 80: self.gcp_client.query(query).to_dataframe()
GcpRun(query, be) ==
    IF be = "ok" THEN
        [events |-> <<Event("execute", "gcp", query)>>,
         outcome |-> "ok", error |-> "", ret |-> DataFrame(query)]
    ELSE
        [events |-> <<Event("execute", "gcp", query)>>,
         outcome |-> "raise", error |-> "driver", ret |-> NoRet]

\* MimicExtractor.get_data_from_mimic
get_data_from_mimic(self, query, log, be) ==
    LET said == LogLine(query, log)
        tag == Lower(self.platform)
        r == IF tag = LOCAL_TAG THEN LocalRun(query, be)
             ELSE IF tag = AWS_TAG THEN
                 [events |-> <<>>, outcome |-> "ok", error |-> "", ret |-> NoneRet]
             ELSE IF tag = GCP_TAG THEN GcpRun(query, be)
             ELSE [events |-> <<>>, outcome |-> "raise",
                   error |-> "Exception:platform", ret |-> NoRet]
    IN  [r EXCEPT !.events = said \o r.events]

\* ---------------------------------------------------------------- builders
\* The if/elif chain every builder repeats: it compares self.platform itself,
\* not its lower-cased form, and has no else branch.
PlatformBranch(self) ==
    IF self.platform = LOCAL_TAG THEN "local"
    ELSE IF self.platform = GCP_TAG THEN "gcp"
    ELSE IF self.platform = AWS_TAG THEN "aws"
    ELSE "unbound"

\* table_prefix as the matching branch assigns it
table_prefix(self) ==
    IF PlatformBranch(self) = "gcp"
    THEN <<"physionet-data.">> \o Frag(self.gcp_dataset) \o <<".">>
    ELSE <<>>

\* age_query as the matching branch of get_patients_age assigns it
age_query(self) ==
    IF PlatformBranch(self) = "local"
    THEN Words(<<"DATE_PART('year',a.ADMITTIME)", "-", "DATE_PART('year',p.dob)">>)
    ELSE IF PlatformBranch(self) = "gcp"
    THEN Words(<<"EXTRACT(year FROM a.ADMITTIME)", "-", "EXTRACT(year FROM p.dob)">>)
    ELSE <<>>

\* the test written as len(ids) > 1
where_clause_skips_single(column, ids) ==
    IF Len(ids) <= 1 THEN <<>>
    ELSE Words(<<"WHERE", column, "IN">>) \o << <<"(">> \o JoinIds(ids) \o <<")">> >>

\* where_clause: "" for an empty list, else WHERE <column> IN (<ids>)
where_clause(column, ids) ==
    IF ids = <<>> THEN <<>>
    ELSE Words(<<"WHERE", column, "IN">>) \o << <<"(">> \o JoinIds(ids) \o <<")">> >>

\* the f-string with the prefix left off the joined table
AgeQuery_unprefixed_join(self, hadm_ids) ==
    Words(<<"SELECT", "p.subject_id,", "a.hadm_id,">>) \o age_query(self)
    \o Words(<<"as", "age", "FROM">>) \o << table_prefix(self) \o <<"patients">> >>
    \o Words(<<"p", "INNER", "JOIN">>) \o << <<"admissions">> >>
    \o Words(<<"a", "ON", "p.subject_id", "=", "a.subject_id">>)
    \o where_clause("a.hadm_id", hadm_ids) \o Words(<<";">>)

\* the f-string of get_patients_age
AgeQuery(self, hadm_ids) ==
    Words(<<"SELECT", "p.subject_id,", "a.hadm_id,">>) \o age_query(self)
    \o Words(<<"as", "age", "FROM">>) \o << table_prefix(self) \o <<"patients">> >>
    \o Words(<<"p", "INNER", "JOIN">>) \o << table_prefix(self) \o <<"admissions">> >>
    \o Words(<<"a", "ON", "p.subject_id", "=", "a.subject_id">>)
    \o where_clause("a.hadm_id", hadm_ids) \o Words(<<";">>)

\* the f-string of get_patients_ethnicity
EthnicityQuery(self, subject_ids) ==
    Words(<<"SELECT", "subject_id,", "ethnicity", "FROM">>)
    \o << table_prefix(self) \o <<"admissions">> >>
    \o where_clause("subject_id", subject_ids) \o Words(<<";">>)

\* the f-string of get_patients_gender
GenderQuery(self, subject_ids) ==
    Words(<<"SELECT", "subject_id,", "gender", "FROM">>)
    \o << table_prefix(self) \o <<"patients">> >>
    \o where_clause("subject_id", subject_ids) \o Words(<<";">>)

\* the f-string of get_icu_stays_by_diagnosis (the column list is one word here)
IcuQuery(self, diagnosis_term) ==
    Words(<<"SELECT", "i.row_id,...,s_icd_d.long_title", "FROM">>)
    \o << table_prefix(self) \o <<"icustays">> >>
    \o Words(<<"i", "LEFT", "JOIN", "(", "SELECT", "*", "FROM">>)
    \o << table_prefix(self) \o <<"patients">> >>
    \o Words(<<"p", ")", "AS", "pat", "ON", "i.subject_id", "=", "pat.subject_id",
               "LEFT", "JOIN", "(", "SELECT", "di.subject_id,", "di.icd9_code", "FROM">>)
    \o << table_prefix(self) \o <<"diagnoses_icd">> >>
    \o Words(<<"di", ")", "AS", "d", "ON", "i.subject_id", "=", "d.subject_id",
               "LEFT", "JOIN", "(", "SELECT", "*", "FROM">>)
    \o << table_prefix(self) \o <<"d_icd_diagnoses">> >>
    \o Words(<<"did", ")", "AS", "s_icd_d", "ON", "d.icd9_code", "=", "s_icd_d.icd9_code",
               "WHERE", "short_title", "LIKE">>)
    \o << <<"'%">> \o Frag(diagnosis_term) \o <<"%'">> >>
    \o Words(<<"OR", "long_title", "LIKE">>)
    \o << <<"'%">> \o Frag(diagnosis_term) \o <<"%';">> >>

\* a builder that consumes the caller's list while it renders it
Delegated_consumes_ids(op, self, ids, term, log, query, be) ==
    LET r == get_data_from_mimic(self, query, log, be)
    IN  [op |-> op, ids |-> ids,
         ids_after |-> IF ids = <<>> THEN ids ELSE Tail(ids),
         term |-> term, log |-> log,
         query |-> query, delegated |-> TRUE, events |-> r.events,
         outcome |-> r.outcome, error |-> r.error, ret |-> r.ret, backend |-> be,
         self_before |-> self, self |-> self]

\* A builder whose if/elif chain matched: it hands query and log to
\* get_data_from_mimic and returns what that returns.
Delegated(op, self, ids, term, log, query, be) ==
    LET r == get_data_from_mimic(self, query, log, be)
    IN  [op |-> op, ids |-> ids, ids_after |-> ids, term |-> term, log |-> log,
         query |-> query, delegated |-> TRUE, events |-> r.events,
         outcome |-> r.outcome, error |-> r.error, ret |-> r.ret, backend |-> be,
         self_before |-> self, self |-> self]

\* A builder whose if/elif chain matched nothing: the f-string reads a local
\* that was never assigned.
Unbound(op, self, ids, term, log, be) ==
    [op |-> op, ids |-> ids, ids_after |-> ids, term |-> term, log |-> log,
     query |-> NoSql, delegated |-> FALSE, events |-> <<>>,
     outcome |-> "raise", error |-> "UnboundLocalError", ret |-> NoRet,
     backend |-> be, self_before |-> self, self |-> self]

get_patients_age(self, hadm_ids, log, be) ==
    IF PlatformBranch(self) = "unbound"
    THEN Unbound("get_patients_age", self, hadm_ids, "", log, be)
    ELSE Delegated("get_patients_age", self, hadm_ids, "", log,
                   AgeQuery(self, hadm_ids), be)

get_patients_ethnicity(self, subject_ids, log, be) ==
    IF PlatformBranch(self) = "unbound"
    THEN Unbound("get_patients_ethnicity", self, subject_ids, "", log, be)
    ELSE Delegated("get_patients_ethnicity", self, subject_ids, "", log,
                   EthnicityQuery(self, subject_ids), be)

get_patients_gender(self, subject_ids, log, be) ==
    IF PlatformBranch(self) = "unbound"
    THEN Unbound("get_patients_gender", self, subject_ids, "", log, be)
    ELSE Delegated("get_patients_gender", self, subject_ids, "", log,
                   GenderQuery(self, subject_ids), be)

get_icu_stays_by_diagnosis(self, diagnosis_term, log, be) ==
    IF PlatformBranch(self) = "unbound"
    THEN Unbound("get_icu_stays_by_diagnosis", self, <<>>, diagnosis_term, log, be)
    ELSE Delegated("get_icu_stays_by_diagnosis", self, <<>>, diagnosis_term, log,
                   IcuQuery(self, diagnosis_term), be)

\* a direct call of get_data_from_mimic by the caller
RunQuery(self, query, log, be) ==
    Delegated("get_data_from_mimic", self, <<>>, "", log, query, be)

\* ---------------------------------------------------------------- actions
Init ==
    /\ gateway = NoGateway
    /\ ctor = NoCtor
    /\ backend \in BackendModes
    /\ last = NoCall
    /\ again = NoCall

\* g = MimicExtractor(platform=..., gcp_credential_file=..., ...)
Construct(platform, cred, proj, dataset, urlOk, credOk) ==
    LET r == MimicExtractor_init(platform, cred, proj, dataset, urlOk, credOk)
    IN  /\ ctor' = [r EXCEPT !.backend = backend]
        /\ gateway' = r.self
        /\ last' = NoCall
        /\ again' = NoCall
        /\ UNCHANGED backend

\* the database or the BigQuery service goes down, comes back, or starts
\* rejecting statements, at any time before the first call on the gateway
SetBackend(b) ==
    /\ b # backend
    /\ last.op = "none"
    /\ backend' = b
    /\ UNCHANGED <<gateway, ctor, last, again>>

\* a first call of a method of the gateway
Finish(r) ==
    /\ gateway.exists
    /\ last' = r
    /\ gateway' = r.self
    /\ again' = NoCall
    /\ UNCHANGED <<ctor, backend>>

CallAge(ids, log) == Finish(get_patients_age(gateway, ids, log, backend))

CallEthnicity(ids, log) == Finish(get_patients_ethnicity(gateway, ids, log, backend))

CallGender(ids, log) == Finish(get_patients_gender(gateway, ids, log, backend))

CallIcu(term, log) == Finish(get_icu_stays_by_diagnosis(gateway, term, log, backend))

CallRunQuery(query, log) == Finish(RunQuery(gateway, query, log, backend))

\* the method of call c, called on self with the arguments c was given (the
\* caller passes the same list object, in the state the first call left it)
SameCall(c, self, be) ==
    IF c.op = "get_patients_age" THEN get_patients_age(self, c.ids_after, c.log, be)
    ELSE IF c.op = "get_patients_ethnicity"
    THEN get_patients_ethnicity(self, c.ids_after, c.log, be)
    ELSE IF c.op = "get_patients_gender"
    THEN get_patients_gender(self, c.ids_after, c.log, be)
    ELSE IF c.op = "get_icu_stays_by_diagnosis"
    THEN get_icu_stays_by_diagnosis(self, c.term, c.log, be)
    ELSE RunQuery(self, c.query, c.log, be)

\* the caller repeats its last call
Repeat ==
    /\ gateway.exists
    /\ last.op # "none"
    /\ again.op = "none"
    /\ again' = SameCall(last, gateway, backend)
    /\ gateway' = again'.self
    /\ UNCHANGED <<ctor, backend, last>>

Next ==
    \/ \E a \in CtorArgs : Construct(a[1], a[2], a[3], a[4], a[5], a[6])
    \/ \E b \in BackendModes : SetBackend(b)
    \/ \E ids \in IdLists, log \in BOOLEAN : CallAge(ids, log)
    \/ \E ids \in IdLists, log \in BOOLEAN : CallEthnicity(ids, log)
    \/ \E ids \in IdLists, log \in BOOLEAN : CallGender(ids, log)
    \/ \E term \in Terms, log \in BOOLEAN : CallIcu(term, log)
    \/ \E query \in RawQueries, log \in BOOLEAN : CallRunQuery(query, log)
    \/ Repeat

Spec == Init /\ [][Next]_vars

\* ---------------------------------------------------------------- properties
Builders == {"get_patients_age", "get_patients_ethnicity", "get_patients_gender",
             "get_icu_stays_by_diagnosis"}
IdBuilders == {"get_patients_age", "get_patients_ethnicity", "get_patients_gender"}
TableNames == {"patients", "admissions", "icustays", "diagnoses_icd", "d_icd_diagnoses"}

\* the backend variant construction chose for a tag
Variant(platform) == Lower(platform)

EventsOfKind(events, kind) == SelectSeq(events, LAMBDA e : e.kind = kind)

HasKind(events, kind) == \E i \in DOMAIN events : events[i].kind = kind

IsDigit(c) == \E d \in DOMAIN DigitChars : DigitChars[d] = c

DigitValue(c) == (CHOOSE d \in DOMAIN DigitChars : DigitChars[d] = c) - 1

Malformed == <<-1>>

\* reads a comma-separated list of decimal numbers back, left to right; cur is
\* the number being read (-1: none yet), acc the numbers read so far
RECURSIVE ReadIds(_, _, _, _)
ReadIds(w, i, cur, acc) ==
    IF i > Len(w) THEN (IF cur = -1 THEN Malformed ELSE Append(acc, cur))
    ELSE IF IsDigit(w[i])
    THEN ReadIds(w, i + 1, (IF cur = -1 THEN 0 ELSE cur) * 10 + DigitValue(w[i]), acc)
    ELSE IF w[i] = "," /\ cur # -1 THEN ReadIds(w, i + 1, -1, Append(acc, cur))
    ELSE Malformed

\* the identifiers of a word "(id1,id2,...)"
IdsOfListWord(w) ==
    IF Len(w) >= 3 /\ w[1] = "(" /\ w[Len(w)] = ")"
    THEN ReadIds(SubSeq(w, 2, Len(w) - 1), 1, -1, <<>>)
    ELSE Malformed

WherePositions(query) == { i \in DOMAIN query : query[i] = <<"WHERE">> }

FilterColumn(op) == IF op = "get_patients_age" THEN "a.hadm_id" ELSE "subject_id"

\* the positions of a query's table references: the word after FROM or JOIN,
\* unless a subquery opens there
TableRefs(query) ==
    { i \in DOMAIN query : /\ i > 1
                           /\ query[i - 1] \in {<<"FROM">>, <<"JOIN">>}
                           /\ query[i] # <<"(">> }

\* the prefix the claim expects for a platform and the dataset given at construction
ExpectedPrefix(platform, dataset) ==
    IF Variant(platform) = GCP_TAG
    THEN <<"physionet-data.">> \o Frag(dataset) \o <<".">>
    ELSE <<>>

\* C1 as stated. Constructing with a tag of the gcp family and at least one of
\* gcp_credential_file, gcp_project_id, gcp_dataset empty raises the
\* parameter error before any credential is loaded or any client is created.
C1_AnyEmptyParameterRejected ==
    ( /\ ctor.ran
      /\ Variant(ctor.platform) = GCP_TAG
      /\ (ctor.gcp_credential_file = "" \/ ctor.gcp_project_id = ""
          \/ ctor.gcp_dataset = "") )
    => /\ ctor.outcome = "raise"
       /\ ctor.error = "Exception:gcp-parameters"
       /\ ~ HasKind(ctor.events, "load_credentials")
       /\ ~ HasKind(ctor.events, "create_client")

\* C2. Constructing with a tag outside the three recognized ones raises the
\* platform error; no engine and no client is created, nothing else is done,
\* and the caller receives no gateway.
C2_UnknownPlatformRejected ==
    ( /\ ctor.ran
      /\ Variant(ctor.platform) \notin {LOCAL_TAG, AWS_TAG, GCP_TAG} )
    => /\ ctor.outcome = "raise"
       /\ ctor.error = "Exception:platform"
       /\ ctor.events = <<>>
       /\ ctor.attrs.engine = Unset
       /\ ctor.attrs.gcp_client = Unset
       /\ ~ ctor.self.exists
       /\ ~ gateway.exists

C2_Witness ==
    /\ ctor.ran
    /\ ctor.platform = <<"a","z","u","r","e">>
    /\ ctor.outcome = "raise"

\* C3 as stated. On a gateway constructed as the aws variant, every builder
\* and get_data_from_mimic return an empty result (None) without raising and
\* without handing any SQL to a backend.
C3_UnsupportedReturnsEmpty ==
    ( /\ last.op # "none"
      /\ Variant(last.self_before.platform) = AWS_TAG )
    => /\ last.outcome = "ok"
       /\ last.ret = NoneRet
       /\ ~ HasKind(last.events, "execute")
       /\ ~ HasKind(last.events, "connect")

\* C4. A query built by get_patients_age, get_patients_ethnicity or
\* get_patients_gender has no WHERE word when the identifier list is empty;
\* otherwise it has exactly one, followed by the builder's column, IN, and a
\* parenthesised list that reads back as exactly the identifiers given, in order.
C4_WhereClauseIsTheIdList ==
    ( /\ last.op \in IdBuilders
      /\ last.delegated )
    => LET q == last.query
           w == WherePositions(q)
       IN  IF last.ids = <<>> THEN w = {}
           ELSE /\ Cardinality(w) = 1
                /\ \A i \in w :
                      /\ i + 3 <= Len(q)
                      /\ q[i + 1] = <<FilterColumn(last.op)>>
                      /\ q[i + 2] = <<"IN">>
                      /\ IdsOfListWord(q[i + 3]) = last.ids

C4_Witness ==
    /\ last.op \in IdBuilders
    /\ last.delegated
    /\ Len(last.ids) = 2
    /\ last.ids[1] > last.ids[2]
    /\ Cardinality(WherePositions(last.query)) = 1

\* C5 as stated. Constructing with a tag of the local family while the
\* backend is unreachable fails: no gateway is constructed whose first
\* contact with the backend is left to a later call.
C5_UnreachableBackendFailsConstruction ==
    ( /\ ctor.ran
      /\ Variant(ctor.platform) = LOCAL_TAG
      /\ ctor.backend = "connect_fail" )
    => ctor.outcome = "raise"

\* C5 amended. Constructing with a tag of the local family creates the engine
\* and opens no connection: it fails only when the driver rejects the
\* parameters, whatever the state of the backend. The connection is opened by
\* get_data_from_mimic, and an unreachable backend raises the driver's error there.
C5_EngineIsLazy ==
    /\ ( ctor.ran /\ Variant(ctor.platform) = LOCAL_TAG )
       => /\ ~ HasKind(ctor.events, "connect")
          /\ ~ HasKind(ctor.events, "execute")
          /\ ctor.outcome = "ok" => ctor.self.exists /\ ctor.self.engine = "Engine"
          /\ ctor.outcome = "raise" => ctor.error = "driver" /\ ~ ctor.self.exists
    /\ ( last.delegated /\ Variant(last.self_before.platform) = LOCAL_TAG )
       => /\ HasKind(last.events, "connect")
          /\ last.backend = "connect_fail"
             => last.outcome = "raise" /\ last.error = "driver"

C5_Witness ==
    /\ ctor.ran
    /\ Variant(ctor.platform) = LOCAL_TAG
    /\ ctor.backend = "connect_fail"
    /\ ctor.outcome = "ok"
    /\ last.delegated
    /\ last.backend = "connect_fail"
    /\ last.outcome = "raise"

\* C6. In a query built by any of the four builders every table reference is
\* the platform's prefix followed by a table name: no prefix for the local
\* and aws variants, physionet-data.<gcp_dataset>. (the dataset given at
\* construction) for the gcp variant.
C6_OnePrefixPerQuery ==
    ( /\ last.op \in Builders
      /\ last.delegated )
    => /\ TableRefs(last.query) # {}
       /\ \A i \in TableRefs(last.query) :
             \E t \in TableNames :
                last.query[i] =
                   ExpectedPrefix(last.self_before.platform, ctor.gcp_dataset) \o <<t>>

C6_Witness ==
    /\ last.op \in Builders
    /\ last.delegated
    /\ Variant(last.self_before.platform) = GCP_TAG
    /\ ctor.gcp_dataset = "mimiciii_clinical"
    /\ Cardinality(TableRefs(last.query)) >= 2

\* C7. A call hands its SQL to the gateway's own backend at most once; when
\* the backend is unreachable or rejects the SQL the call raises the driver's
\* error and returns nothing.
C7_OneShotNoFallback ==
    last.delegated
    => /\ Len(EventsOfKind(last.events, "execute")) <= 1
       /\ Len(EventsOfKind(last.events, "connect")) <= 1
       /\ \A i \in DOMAIN last.events :
             last.events[i].kind \in {"execute", "connect"}
             => /\ last.events[i].to =
                      (IF Variant(last.self_before.platform) = LOCAL_TAG
                       THEN "local" ELSE "gcp")
                /\ Variant(last.self_before.platform) \in {LOCAL_TAG, GCP_TAG}
       /\ \A i \in DOMAIN last.events :
             last.events[i].kind = "execute" => last.events[i].text = last.query
       /\ ( /\ Variant(last.self_before.platform) \in {LOCAL_TAG, GCP_TAG}
            /\ last.backend # "ok" )
          => /\ last.outcome = "raise"
             /\ last.error = "driver"
       /\ last.outcome = "raise" => last.ret = NoRet

C7_Witness ==
    /\ last.op \in Builders
    /\ last.delegated
    /\ Variant(last.self_before.platform) = GCP_TAG
    /\ last.backend = "exec_fail"
    /\ last.outcome = "raise"
    /\ Len(EventsOfKind(last.events, "execute")) = 1

\* C8. With log set, get_data_from_mimic prints one line, which carries the
\* SQL text it was given, before it hands that same text to the backend;
\* with log clear nothing is printed. A builder passes its log flag on as is.
C8_LoggedBeforeExecuted ==
    last.op # "none"
    => LET p == EventsOfKind(last.events, "print")
       IN  /\ ( last.delegated /\ last.log )
              => /\ Len(p) = 1
                 /\ last.events[1].kind = "print"
                 /\ last.events[1].text = Words(<<"Running", "query:">>) \o last.query
                 /\ \A i \in DOMAIN last.events :
                       last.events[i].kind = "execute"
                       => i > 1 /\ last.events[i].text = last.query
           /\ ~ last.log => p = <<>>

C8_Witness ==
    /\ last.op \in Builders
    /\ last.delegated
    /\ last.log
    /\ Len(last.query) > 0
    /\ HasKind(last.events, "execute")

\* C9. A builder call leaves the gateway and the caller's list as they were,
\* and the same call made again against the unchanged backend builds the same
\* SQL, does the same things and returns the same content.
C9_SameCallSameResult ==
    /\ last.op \in Builders
       => /\ last.self = last.self_before
          /\ last.ids_after = last.ids
          /\ again.op = "none" => gateway = last.self_before
    /\ ( again.op \in Builders /\ again.backend = last.backend )
       => /\ again.op = last.op
          /\ again.query = last.query
          /\ again.events = last.events
          /\ again.outcome = last.outcome
          /\ again.error = last.error
          /\ again.ret = last.ret
          /\ again.self = last.self_before
          /\ gateway = last.self_before

C9_Witness ==
    /\ again.op \in IdBuilders
    /\ again.delegated
    /\ again.backend = last.backend
    /\ Len(last.ids) = 2
    /\ again.ret.kind = "DataFrame"

\* C10 as stated. On every gateway the constructor returned, every builder
\* builds its SQL and reaches get_data_from_mimic.
C10_BuildersReachRunQuery ==
    ( /\ last.op \in Builders
      /\ last.self_before.exists )
    => /\ last.delegated
       /\ last.error # "UnboundLocalError"

====
